---- MODULE Spec2Model ----
(***************************************************************************)
(* Model of src/agents.py: the search budget counter, the LinkUp search    *)
(* tool, crew creation and the retry loop of run_research.                 *)
(*                                                                         *)
(* Strings are TLA+ strings; f-strings are concatenations, `in` is         *)
(* substring search, len() is Len.  Backoff sleeps are logged in whole     *)
(* time units, the pacing sleep of the tool in tenths of a unit.           *)
(***************************************************************************)
EXTENDS Integers, Sequences, FiniteSets, TLC

VARIABLES
    LINKUP_AVAILABLE,       \* module flag set at import time (agents.py:13-20)
    _global_search_count,   \* the process-wide search counter
    pc,                     \* position of run_research
    attempt,                \* loop variable of run_research
    exc,                    \* exception in flight, handled at pc = "except"
    result,                 \* value returned by the last run_research call
    toolResult,             \* text returned by the last LinkUpSearchTool._run
    invocations,            \* history: calls of run_research so far
    toolCalls,              \* history: _run calls in the current attempt
    provLog,                \* history: provider calls of the current attempt
    sessionProviderCalls,   \* history: provider calls of this invocation,
                            \*   counted up to _max_searches + 1
    resetsInAttempt,        \* history: counter resets in the current attempt
    countAtReset,           \* history: counter value just before last reset
    preWait,                \* history: sleep before create in this attempt
    postWait,               \* history: sleep done by the last handler run
    lastRaw,                \* history: body returned by the last kickoff
    ended,                  \* history: how the last attempt ended
    lastErrMsg,             \* history: str(e) of the last handled exception
    credMissing,            \* history: leading attempts whose create read no
                            \*   LINKUP_API_KEY; -1 once one attempt read it
    prevGap,                \* history: total wait before the previous attempt
    lastResponse,           \* history: provider response of the last _run
    lastKeyPresent,         \* history: LINKUP_API_KEY was set at the last _run
    pacingSlept,            \* history: tenths slept by _run in this attempt
    earlierRateLimited,     \* history: this call had failed attempts before
                            \*   the last handled one, all rate-limit
                            \*   classified; dropped when a crew starts
    readCount,              \* current_count of the _run that is under way
    otherPc,                \* a second run_research call in the same process
    otherAttempt,           \* loop variable of that call
    otherRead,              \* current_count of the _run under way in that call
    otherSteps              \* history: steps taken by that call so far

vars == << LINKUP_AVAILABLE, _global_search_count, pc, attempt, exc, result,
           toolResult, invocations, toolCalls, provLog, sessionProviderCalls,
           resetsInAttempt, countAtReset, preWait, postWait, lastRaw,
           ended, lastErrMsg, credMissing, prevGap, lastResponse,
           lastKeyPresent, pacingSlept, earlierRateLimited, readCount,
           otherPc, otherAttempt, otherRead, otherSteps >>

(***************************************************************************)
(* Bounds of the model.                                                    *)
(***************************************************************************)
MaxInvocations == 2
MaxToolCalls == 6
MaxOtherSteps == 6

(***************************************************************************)
(* Program constants.                                                      *)
(***************************************************************************)
_max_searches == 5

max_retries_4 == 3 + 1

max_retries == 3

retry_delay == 3

pacing_delay_tenths == 15

truncate_at == 4000

min_content_len == 500

(***************************************************************************)
(* String helpers: Python's str * n, `sub in s`, and str.lower().          *)
(***************************************************************************)
RECURSIVE Rep(_, _)
Rep(c, n) ==
    IF n = 0 THEN ""
    ELSE IF n % 2 = 1 THEN c \o Rep(c, n - 1)
    ELSE LET h == Rep(c, n \div 2) IN h \o h

Contains(sub, s) ==
    \E i \in 1..(Len(s) - Len(sub) + 1) : SubSeq(s, i, i + Len(sub) - 1) = sub

UpperAlpha == "ABCDEFGHIJKLMNOPQRSTUVWXYZ"
LowerAlpha == "abcdefghijklmnopqrstuvwxyz"

LowerChar(c) ==
    IF \E i \in 1..26 : SubSeq(UpperAlpha, i, i) = c
    THEN LET i == CHOOSE j \in 1..26 : SubSeq(UpperAlpha, j, j) = c
         IN SubSeq(LowerAlpha, i, i)
    ELSE c

\* the first n characters of s, lower-cased
RECURSIVE LowerPrefix(_, _)
LowerPrefix(s, n) ==
    IF n = 0 THEN ""
    ELSE LowerPrefix(s, n - 1) \o LowerChar(SubSeq(s, n, n))

Lower(s) == LowerPrefix(s, Len(s))

(***************************************************************************)
(* Inputs.  os.getenv returns None (modelled <<>>) or a string (<<s>>).    *)
(***************************************************************************)
EnvValues == { <<>>, <<"">>, <<"key">> }

Truthy(v) == v # <<>> /\ v[1] # ""

Depths == { "standard", "deep" }

\* outcome of the provider side of one tool call
ProviderOutcomes ==
    { [kind |-> "ok", text |-> "r"],
      [kind |-> "ok", text |-> Rep("x", truncate_at)],
      [kind |-> "ok", text |-> Rep("y", truncate_at + 1)],
      [kind |-> "search_raises", text |-> "connection reset"],
      [kind |-> "client_raises", text |-> "bad api key format"] }

\* report bodies (result.raw) the orchestrator may return
Bodies == { "", Rep("a", 300), Rep("b", min_content_len - 1),
            Rep("c", min_content_len), Rep("d", min_content_len + 1) }

\* exceptions: class name as printed by str(type(e)), base classes, str(e)
Exc(cls, bases, msg) == [cls |-> cls, bases |-> bases, msg |-> msg]

ImportErrorUnavailable ==
    Exc("ImportError", {"ImportError", "Exception"},
        "LinkupClient is not available. Please install linkup-sdk: pip install linkup-sdk")
ValueErrorGemini ==
    Exc("ValueError", {"ValueError", "Exception"},
        "GEMINI_API_KEY environment variable not set")
ValueErrorLinkup ==
    Exc("ValueError", {"ValueError", "Exception"},
        "LINKUP_API_KEY environment variable not set")

\* exceptions raised by the crewai constructors or by crew.kickoff
ExternalErrors ==
    { Exc("litellm.exceptions.RateLimitError", {"Exception"}, "Rate Limit exceeded"),
      Exc("RuntimeError", {"RuntimeError", "Exception"}, "The model is overloaded"),
      Exc("ValueError", {"ValueError", "Exception"}, "Quota exhausted for key"),
      Exc("ValueError", {"ValueError", "Exception"}, "invalid task config"),
      Exc("ModuleNotFoundError", {"ModuleNotFoundError", "ImportError", "Exception"},
          "No module named 'litellm'"),
      Exc("TimeoutError", {"TimeoutError", "OSError", "Exception"}, "crew timed out") }

NoExc == Exc("", {}, "")

(***************************************************************************)
(* Search budget guard (agents.py:45-66).                                  *)
(***************************************************************************)
reset_search_counter_first_only ==
    _global_search_count' = IF attempt = 0 THEN 0 ELSE _global_search_count

reset_search_counter == _global_search_count' = 0

increment_search_counter_dec(count) == count - 1

increment_search_counter(count) == count + 1

get_search_count == _global_search_count

(***************************************************************************)
(* LinkUpSearchTool._run (agents.py:79-122).                               *)
(***************************************************************************)
LimitReached_gt(current_count) == current_count > _max_searches

LimitReached_never(current_count) == FALSE

\* line 86: the budget check
LimitReached(current_count) == current_count >= _max_searches

SearchDepth_before(current_count) ==
    IF current_count % 3 = 0 THEN "deep" ELSE "standard"

\* line 102: depth is derived from the count read at entry; the caller's
\* depth argument is not used
SearchDepth(current_count) ==
    IF (current_count + 1) % 3 = 0 THEN "deep" ELSE "standard"

CountAfterCall_eager(ok) == increment_search_counter(get_search_count)

\* lines 104-111 and 121: the increment follows the provider call inside
\* the try block, so an exception of the provider skips it
CountAfterCall(ok) ==
    IF ok THEN increment_search_counter(get_search_count) ELSE get_search_count

Truncate_ge(response_str, new_count, search_depth) ==
    IF Len(response_str) >= truncate_at
    THEN SubSeq(response_str, 1, truncate_at)
         \o "\n... [Results truncated at 4000 chars for efficiency, search "
         \o ToString(new_count) \o " using " \o search_depth \o " depth]"
    ELSE response_str

\* lines 114-117
Truncate(response_str, new_count, search_depth) ==
    IF Len(response_str) > truncate_at
    THEN SubSeq(response_str, 1, truncate_at)
         \o "\n... [Results truncated at 4000 chars for efficiency, search "
         \o ToString(new_count) \o " using " \o search_depth \o " depth]"
    ELSE response_str

LimitMessage ==
    "Maximum search limit (" \o ToString(_max_searches)
    \o ") reached. Please analyze existing results."

UnavailableMessage ==
    "Error: LinkupClient is not available. Please install linkup-sdk: pip install linkup-sdk"

MissingKeyMessage == "Error: LINKUP_API_KEY environment variable not set"

ToolCaught_none(e) == FALSE

\* line 121: `except Exception` of the tool
ToolCaught(e) == "Exception" \in e.bases

\* the exception a failing LinkupClient constructor or search call raises
ProviderExc(text) == Exc("Exception", {"Exception"}, text)

PacingBefore_never(kind) == 0

\* lines 96-104: the client is constructed, then time.sleep(1.5) runs, then
\* the search; a constructor that raises skips the sleep
PacingBefore(kind) ==
    IF kind = "client_raises" THEN 0 ELSE pacing_delay_tenths

\* The whole method as a function of what it reads: the caller's depth
\* argument, os.getenv("LINKUP_API_KEY") and the provider's behaviour.
\* ret is the returned text, count the counter afterwards, calls the
\* provider calls made (none or one), slept the pacing sleep in tenths,
\* raised the exception that leaves the method (<<>> when it returns).
\* current_count is the counter as line 85 read it; the counter itself is
\* read again by the increment of line 111.
LinkUpSearchTool_run(current_count, depth, api_key, prov) ==
    LET nothing == [ret |-> "", count |-> get_search_count, calls |-> <<>>,
                    slept |-> 0, raised |-> <<>>]
        failed(e, r) ==
            IF ToolCaught(e)
            THEN [r EXCEPT !.ret = "Error occurred while searching: " \o e.msg]
            ELSE [r EXCEPT !.raised = << e >>]
    IN  IF ~LINKUP_AVAILABLE
        THEN [nothing EXCEPT !.ret = UnavailableMessage]
        ELSE IF LimitReached(current_count)
        THEN [nothing EXCEPT !.ret = LimitMessage]
        ELSE IF ~Truthy(api_key)
        THEN [nothing EXCEPT !.ret = MissingKeyMessage]
        ELSE IF prov.kind = "client_raises"
        THEN failed(ProviderExc(prov.text),
                    [nothing EXCEPT !.slept = PacingBefore(prov.kind)])
        ELSE LET search_depth == SearchDepth(current_count)
                 ok == prov.kind = "ok"
                 new_count == CountAfterCall(ok)
                 call == [depth |-> search_depth, ok |-> ok,
                          paced |-> PacingBefore(prov.kind)]
                 called == [nothing EXCEPT !.count = new_count,
                                           !.calls = << call >>,
                                           !.slept = PacingBefore(prov.kind)]
             IN  IF ok
                 THEN [called EXCEPT !.ret =
                               "Search " \o ToString(new_count) \o "/"
                               \o ToString(_max_searches) \o " ("
                               \o search_depth \o " depth):\n"
                               \o Truncate(prov.text, new_count, search_depth)]
                 ELSE failed(ProviderExc(prov.text), called)

(***************************************************************************)
(* create_research_crew (agents.py:125-240): the checks that can raise.    *)
(* ext is what the crewai constructors do: <<>> or <<exception>>.          *)
(***************************************************************************)
create_research_crew_nolinkup(gemini_key, linkup_key, ext) ==
    IF ~LINKUP_AVAILABLE THEN << ImportErrorUnavailable >>
    ELSE IF ~Truthy(gemini_key) THEN << ValueErrorGemini >>
    ELSE ext

create_research_crew(gemini_key, linkup_key, ext) ==
    IF ~LINKUP_AVAILABLE THEN << ImportErrorUnavailable >>
    ELSE IF ~Truthy(gemini_key) THEN << ValueErrorGemini >>
    ELSE IF ~Truthy(linkup_key) THEN << ValueErrorLinkup >>
    ELSE ext

(***************************************************************************)
(* run_research (agents.py:243-291): the pure parts.                       *)
(***************************************************************************)
Caught_value_only(e) == "ValueError" \in e.bases

\* line 266: `except Exception`
Caught(e) == "Exception" \in e.bases

IsRateLimit_noquota(error_msg) ==
    \/ Contains("overloaded", error_msg)
    \/ Contains("rate limit", error_msg)

\* line 270, applied to str(e).lower()
IsRateLimit(error_msg) ==
    \/ Contains("overloaded", error_msg)
    \/ Contains("rate limit", error_msg)
    \/ Contains("quota", error_msg)

AttemptsRemain_all(i) == i < max_retries

\* lines 271 and 279
AttemptsRemain(i) == i < max_retries - 1

RetryWait_linear(i, rate_limited) == retry_delay * (i + 1)

\* lines 273 and 281: the sleep before `continue`
RetryWait(i, rate_limited) ==
    IF rate_limited THEN retry_delay * (i + 1) ELSE retry_delay

PreAttemptWait_const(i) == IF i > 0 THEN retry_delay ELSE 0

PreAttemptWait_prev(i) == IF i > 0 THEN retry_delay * (i - 1) ELSE 0

\* line 255
PreAttemptWait(i) == IF i > 0 THEN retry_delay * i ELSE 0

ContentLimited_le(raw) == Len(raw) <= min_content_len

\* line 261
ContentLimited(raw) == Len(raw) < min_content_len

\* lines 261-264
ReportResult(raw) ==
    IF ContentLimited(raw)
    THEN "Research completed but content seems limited. Here's what was found:\n\n"
         \o raw
         \o "\n\n[Note: For more comprehensive results, try refining your query or checking API limits]"
    ELSE raw

RateLimitedMessage ==
    "API Rate Limited: The Gemini API is currently overloaded. Please try again in a few minutes. For comprehensive research, consider:\n\n1. Breaking your query into smaller, more specific questions\n2. Trying again during off-peak hours\n3. Using more specific search terms"

\* lines 284-289; str(type(e)) is "<class 'NAME'>"
TypeString(e) == "<class '" \o e.cls \o "'>"

FinalErrorMessage(e) ==
    IF Contains("ImportError", TypeString(e))
    THEN "Import Error: " \o e.msg \o "\nPlease install linkup-sdk: pip install linkup-sdk"
    ELSE IF Contains("ValueError", TypeString(e))
    THEN "Configuration Error: " \o e.msg
    ELSE "Error: " \o e.msg
         \o "\n\nTroubleshooting tips:\n1. Try simplifying your query\n2. Check your API key configurations\n3. Ensure stable internet connection\n4. Try breaking complex queries into smaller parts"

TerminalMessage_type_first(e, rate_limited) ==
    IF Contains("ImportError", TypeString(e))
       \/ Contains("ValueError", TypeString(e))
       \/ ~rate_limited
    THEN FinalErrorMessage(e)
    ELSE RateLimitedMessage

\* lines 270-289 with no attempt left: the text test comes before the
\* tests on the type
TerminalMessage(e, rate_limited) ==
    IF rate_limited THEN RateLimitedMessage ELSE FinalErrorMessage(e)

MaxRetriesMessage ==
    "Maximum retries exceeded. Please try again later or contact support if the issue persists."

(***************************************************************************)
(* State machine.                                                          *)
(*   pc = "idle"      no call of run_research is in progress               *)
(*        "loop"      at the head of `for attempt in range(max_retries)`   *)
(*        "presleep"  after the reset, before the pre-attempt sleep        *)
(*        "create"    before create_research_crew                          *)
(*        "kickoff"   inside crew.kickoff; the agent may call the tool     *)
(*        "except"    in the except clause with exc                        *)
(*        "raised"    an exception left run_research                       *)
(***************************************************************************)
Init ==
    /\ LINKUP_AVAILABLE \in BOOLEAN
    /\ _global_search_count = 0
    /\ pc = "idle"
    /\ attempt = 0
    /\ exc = NoExc
    /\ result = ""
    /\ toolResult = ""
    /\ invocations = 0
    /\ toolCalls = 0
    /\ provLog = <<>>
    /\ sessionProviderCalls = 0
    /\ resetsInAttempt = 0
    /\ countAtReset = 0
    /\ preWait = 0
    /\ postWait = 0
    /\ lastRaw = ""
    /\ ended = "none"
    /\ lastErrMsg = ""
    /\ credMissing = 0
    /\ prevGap = 0
    /\ lastResponse = ""
    /\ lastKeyPresent = FALSE
    /\ pacingSlept = 0
    /\ earlierRateLimited = FALSE
    /\ readCount = 0
    /\ otherPc = "idle"
    /\ otherAttempt = 0
    /\ otherRead = 0
    /\ otherSteps = 0

otherVars == << otherPc, otherAttempt, otherRead, otherSteps >>

\* the caller (app.py:254) calls run_research
Invoke ==
    /\ pc \in {"idle", "raised"}
    /\ invocations < MaxInvocations
    /\ invocations' = invocations + 1
    /\ pc' = "loop"
    /\ attempt' = 0
    /\ exc' = NoExc
    /\ result' = ""
    /\ toolResult' = ""
    /\ toolCalls' = 0
    /\ provLog' = <<>>
    /\ sessionProviderCalls' = 0
    /\ resetsInAttempt' = 0
    /\ countAtReset' = 0
    /\ preWait' = 0
    /\ postWait' = 0
    /\ lastRaw' = ""
    /\ ended' = "none"
    /\ lastErrMsg' = ""
    /\ credMissing' = 0
    /\ prevGap' = 0
    /\ lastResponse' = ""
    /\ lastKeyPresent' = FALSE
    /\ pacingSlept' = 0
    /\ earlierRateLimited' = FALSE
    /\ UNCHANGED << LINKUP_AVAILABLE, _global_search_count, readCount, otherVars >>

\* lines 248-251: next iteration of the for loop and the reset; line 291
\* when the range is used up
StartAttempt ==
    /\ pc = "loop"
    /\ IF attempt < max_retries
       THEN /\ reset_search_counter
            /\ countAtReset' = _global_search_count
            /\ resetsInAttempt' = resetsInAttempt + 1
            /\ pc' = "presleep"
            /\ result' = result
       ELSE /\ result' = MaxRetriesMessage
            /\ pc' = "idle"
            /\ UNCHANGED << _global_search_count, countAtReset,
                            resetsInAttempt >>
    /\ preWait' = 0
    /\ UNCHANGED << LINKUP_AVAILABLE, attempt, exc, toolResult, invocations,
                    toolCalls, provLog, sessionProviderCalls, postWait,
                    lastRaw, ended, lastErrMsg, credMissing, prevGap,
                    lastResponse, lastKeyPresent, pacingSlept, readCount, otherVars,
                    earlierRateLimited >>

\* lines 254-255
PreSleep ==
    /\ pc = "presleep"
    /\ preWait' = PreAttemptWait(attempt)
    /\ pc' = "create"
    /\ UNCHANGED << LINKUP_AVAILABLE, _global_search_count, attempt, exc,
                    result, toolResult, invocations, toolCalls, provLog,
                    sessionProviderCalls, resetsInAttempt, countAtReset,
                    postWait, lastRaw, ended, lastErrMsg, credMissing,
                    prevGap, lastResponse, lastKeyPresent, pacingSlept,
                    readCount, otherVars,
                    earlierRateLimited >>

\* an exception raised in the try block: caught at line 266 or not
Raise(e) ==
    /\ exc' = e
    /\ ended' = "failed"
    /\ pc' = IF Caught(e) THEN "except" ELSE "raised"

\* line 257; the histories of the waits and of the reset end here, the
\* total wait is remembered while another attempt can follow
CreateCrew ==
    /\ pc = "create"
    /\ \E gemini_key \in EnvValues, linkup_key \in EnvValues,
          ext \in { <<>> } \cup { << e >> : e \in ExternalErrors } :
         LET raised == create_research_crew(gemini_key, linkup_key, ext)
         IN  /\ IF raised = <<>>
                THEN pc' = "kickoff" /\ UNCHANGED << exc, ended >>
                ELSE Raise(raised[1])
             /\ credMissing' = IF credMissing = attempt /\ ~Truthy(linkup_key)
                               THEN credMissing + 1 ELSE -1
             /\ earlierRateLimited' = (raised # <<>> /\ earlierRateLimited)
    /\ countAtReset' = 0
    /\ postWait' = 0
    /\ lastErrMsg' = ""
    /\ prevGap' = IF attempt < max_retries - 1 THEN preWait + postWait ELSE 0
    /\ UNCHANGED << LINKUP_AVAILABLE, _global_search_count, attempt, result,
                    toolResult, invocations, toolCalls, provLog,
                    sessionProviderCalls, resetsInAttempt, preWait, lastRaw,
                    lastResponse, lastKeyPresent, pacingSlept, readCount, otherVars >>

\* crew.kickoff is over: the tool's last answer and the per-attempt
\* histories of the tool are dropped
KickoffEnds ==
    /\ toolResult' = ""
    /\ toolCalls' = 0
    /\ provLog' = <<>>
    /\ lastResponse' = ""
    /\ lastKeyPresent' = FALSE
    /\ pacingSlept' = 0

\* _run returns r (or raises) to the search agent during crew.kickoff; an
\* exception that left the tool would end kickoff with that exception
ToolReturns(r, api_key, prov) ==
    /\ _global_search_count' = r.count
    /\ sessionProviderCalls' =
          IF sessionProviderCalls + Len(r.calls) > _max_searches + 1
          THEN _max_searches + 1
          ELSE sessionProviderCalls + Len(r.calls)
    /\ IF r.raised = <<>>
       THEN /\ toolResult' = r.ret
            /\ toolCalls' = toolCalls + 1
            /\ provLog' = provLog \o r.calls
            /\ lastResponse' =
                  IF r.calls # <<>> /\ r.calls[1].ok
                  THEN prov.text ELSE ""
            /\ lastKeyPresent' = Truthy(api_key)
            /\ pacingSlept' = pacingSlept + r.slept
            /\ pc' = "kickoff"
            /\ UNCHANGED << exc, ended >>
       ELSE /\ Raise(r.raised[1])
            /\ KickoffEnds
    /\ UNCHANGED << LINKUP_AVAILABLE, attempt, result, invocations,
                    resetsInAttempt, countAtReset, preWait, postWait,
                    lastRaw, lastErrMsg, credMissing, prevGap,
                    earlierRateLimited, otherVars >>

\* the provider's behaviours once the client exists
SearchOutcomes == { p \in ProviderOutcomes : p.kind # "client_raises" }

\* lines 79-99: the search agent calls the tool during crew.kickoff (line
\* 258); _run reads the counter and returns at once when it is denied, has
\* no key or cannot construct the client, else it goes to sleep
ToolBegin ==
    /\ pc = "kickoff"
    /\ toolCalls < MaxToolCalls
    /\ \/ \E depth \in Depths, api_key \in EnvValues,
             prov \in ProviderOutcomes :
            LET r == LinkUpSearchTool_run(get_search_count, depth, api_key, prov)
            IN  /\ r.calls = <<>>
                /\ ToolReturns(r, api_key, prov)
                /\ UNCHANGED readCount
       \/ /\ \E depth \in Depths, api_key \in EnvValues,
                prov \in ProviderOutcomes :
               LinkUpSearchTool_run(get_search_count, depth, api_key, prov).calls # <<>>
          /\ pc' = "search"
          /\ readCount' = get_search_count
          /\ UNCHANGED << LINKUP_AVAILABLE, _global_search_count, attempt,
                          exc, result, toolResult, invocations, toolCalls,
                          provLog, sessionProviderCalls, resetsInAttempt,
                          countAtReset, preWait, postWait, lastRaw, ended,
                          lastErrMsg, credMissing, prevGap, lastResponse,
                          lastKeyPresent, pacingSlept, earlierRateLimited,
                          otherVars >>

\* lines 102-122: the search returns or raises, the counter is incremented
\* from its value now, the depth and the text come from the count read
ToolFinish ==
    /\ pc = "search"
    /\ \E depth \in Depths, api_key \in { k \in EnvValues : Truthy(k) },
          prov \in SearchOutcomes :
         ToolReturns(LinkUpSearchTool_run(readCount, depth, api_key, prov),
                     api_key, prov)
    /\ readCount' = 0

\* lines 258-264: kickoff returns a report and run_research returns
KickoffReturns ==
    /\ pc = "kickoff"
    /\ \E raw \in Bodies :
         /\ lastRaw' = raw
         /\ result' = ReportResult(raw)
    /\ ended' = "returned"
    /\ pc' = "idle"
    /\ KickoffEnds
    /\ UNCHANGED << LINKUP_AVAILABLE, _global_search_count, attempt, exc,
                    invocations, sessionProviderCalls, resetsInAttempt,
                    countAtReset, preWait, postWait, lastErrMsg, credMissing,
                    prevGap, readCount, otherVars,
                    earlierRateLimited >>

\* line 258: kickoff raises
KickoffRaises ==
    /\ pc = "kickoff"
    /\ \E e \in ExternalErrors : Raise(e)
    /\ KickoffEnds
    /\ UNCHANGED << LINKUP_AVAILABLE, _global_search_count, attempt, result,
                    invocations, sessionProviderCalls, resetsInAttempt,
                    countAtReset, preWait, postWait, lastRaw, lastErrMsg,
                    credMissing, prevGap, readCount, otherVars,
                    earlierRateLimited >>

\* lines 266-289: the except clause; e is unbound when the clause ends
Handle ==
    /\ pc = "except"
    /\ LET error_msg == Lower(exc.msg)
           rate_limited == IsRateLimit(error_msg)
       IN  IF AttemptsRemain(attempt)
           THEN /\ postWait' = RetryWait(attempt, rate_limited)
                /\ attempt' = attempt + 1
                /\ pc' = "loop"
                /\ result' = result
                /\ earlierRateLimited' =
                      (rate_limited /\ (attempt = 0 \/ earlierRateLimited))
           ELSE /\ postWait' = 0
                /\ attempt' = attempt
                /\ pc' = "idle"
                /\ result' = TerminalMessage(exc, rate_limited)
                /\ UNCHANGED earlierRateLimited
    /\ exc' = NoExc
    /\ lastErrMsg' = exc.msg
    /\ resetsInAttempt' = 0
    /\ UNCHANGED << LINKUP_AVAILABLE, _global_search_count, toolResult,
                    invocations, toolCalls, provLog, sessionProviderCalls,
                    countAtReset, preWait, lastRaw, ended, credMissing,
                    prevGap, lastResponse, lastKeyPresent, pacingSlept,
                    readCount, otherVars >>

Next ==
    \/ Invoke
    \/ StartAttempt
    \/ PreSleep
    \/ CreateCrew
    \/ ToolBegin
    \/ ToolFinish
    \/ KickoffReturns
    \/ KickoffRaises
    \/ Handle

Spec == Init /\ [][Next]_vars

(***************************************************************************)
(* Two calls of run_research in the same process (two Streamlit session    *)
(* threads running app.py:254 on the same imported module).  Nothing locks *)
(* the counter, and _run waits in time.sleep (line 99) and in the provider *)
(* call (line 104) between its read of the counter (line 85) and the       *)
(* increment (line 111), so the steps of the two calls interleave there.   *)
(* The second call is kept to what it does to the counter: the reset of    *)
(* each attempt and the reads and increments of its searches.              *)
(***************************************************************************)
mainVars ==
    << LINKUP_AVAILABLE, pc, attempt, exc, result, toolResult, toolCalls,
       provLog, sessionProviderCalls, resetsInAttempt, countAtReset,
       preWait, postWait, lastRaw, ended, lastErrMsg, credMissing, prevGap,
       lastResponse, lastKeyPresent, pacingSlept, earlierRateLimited,
       readCount >>

\* what the except clause of lines 266-289 does to the second call
OtherHandled ==
    IF AttemptsRemain(otherAttempt)
    THEN otherPc' = "loop" /\ otherAttempt' = otherAttempt + 1
    ELSE otherPc' = "idle" /\ otherAttempt' = 0

\* app.py:254 in the second session: run_research is called
OtherInvoke ==
    /\ otherSteps < MaxOtherSteps
    /\ otherSteps' = otherSteps + 1
    /\ otherPc = "idle"
    /\ invocations < MaxInvocations
    /\ invocations' = invocations + 1
    /\ otherPc' = "loop"
    /\ otherAttempt' = 0
    /\ UNCHANGED << mainVars, _global_search_count, otherRead >>

\* lines 248-251 in the second call: the next pass of the loop and its reset
OtherStartAttempt ==
    /\ otherSteps < MaxOtherSteps
    /\ otherSteps' = otherSteps + 1
    /\ otherPc = "loop"
    /\ reset_search_counter
    /\ otherPc' = "presleep"
    /\ UNCHANGED << mainVars, invocations, otherAttempt, otherRead >>

\* lines 254-255 in the second call: the sleep before a retry is over
OtherPreSleep ==
    /\ otherSteps < MaxOtherSteps
    /\ otherSteps' = otherSteps + 1
    /\ otherPc = "presleep"
    /\ otherPc' = "create"
    /\ UNCHANGED << mainVars, invocations, _global_search_count,
                    otherAttempt, otherRead >>

\* line 257 in the second call: create_research_crew starts the crew or
\* raises
OtherCreateCrew ==
    /\ otherSteps < MaxOtherSteps
    /\ otherSteps' = otherSteps + 1
    /\ otherPc = "create"
    /\ \E raised \in
            { create_research_crew(gemini_key, linkup_key, ext) :
                 gemini_key \in EnvValues, linkup_key \in EnvValues,
                 ext \in { <<>> } \cup { << e >> : e \in ExternalErrors } } :
         IF raised = <<>>
         THEN otherPc' = "kickoff" /\ UNCHANGED otherAttempt
         ELSE IF Caught(raised[1])
         THEN OtherHandled
         ELSE otherPc' = "idle" /\ otherAttempt' = 0
    /\ UNCHANGED << mainVars, invocations, _global_search_count, otherRead >>

\* lines 79-99 in the second call
OtherToolBegin ==
    /\ otherSteps < MaxOtherSteps
    /\ otherSteps' = otherSteps + 1
    /\ otherPc = "kickoff"
    /\ \E r \in { LinkUpSearchTool_run(get_search_count, depth, api_key, prov) :
                     depth \in Depths, api_key \in EnvValues,
                     prov \in ProviderOutcomes } :
         IF r.calls = <<>>
         THEN UNCHANGED << otherPc, otherRead >>
         ELSE otherPc' = "search" /\ otherRead' = get_search_count
    /\ UNCHANGED << mainVars, invocations, _global_search_count,
                    otherAttempt >>

\* lines 102-122 in the second call
OtherToolFinish ==
    /\ otherSteps < MaxOtherSteps
    /\ otherSteps' = otherSteps + 1
    /\ otherPc = "search"
    /\ \E r \in { LinkUpSearchTool_run(otherRead, depth, api_key, prov) :
                     depth \in Depths,
                     api_key \in { k \in EnvValues : Truthy(k) },
                     prov \in SearchOutcomes } :
         _global_search_count' = r.count
    /\ otherPc' = "kickoff"
    /\ otherRead' = 0
    /\ UNCHANGED << mainVars, invocations, otherAttempt >>

\* lines 258-264 in the second call: its kickoff returns and so does it
OtherKickoffReturns ==
    /\ otherSteps < MaxOtherSteps
    /\ otherSteps' = otherSteps + 1
    /\ otherPc = "kickoff"
    /\ otherPc' = "idle"
    /\ otherAttempt' = 0
    /\ UNCHANGED << mainVars, invocations, _global_search_count, otherRead >>

\* lines 258 and 266-289 in the second call: its kickoff raises
OtherKickoffRaises ==
    /\ otherSteps < MaxOtherSteps
    /\ otherSteps' = otherSteps + 1
    /\ otherPc = "kickoff"
    /\ OtherHandled
    /\ UNCHANGED << mainVars, invocations, _global_search_count, otherRead >>

NextConc ==
    \/ Invoke
    \/ StartAttempt
    \/ PreSleep
    \/ CreateCrew
    \/ ToolBegin
    \/ ToolFinish
    \/ KickoffReturns
    \/ KickoffRaises
    \/ Handle
    \/ OtherInvoke
    \/ OtherStartAttempt
    \/ OtherPreSleep
    \/ OtherCreateCrew
    \/ OtherToolBegin
    \/ OtherToolFinish
    \/ OtherKickoffReturns
    \/ OtherKickoffRaises

SpecConc == Init /\ [][NextConc]_vars

TypeOK ==
    /\ LINKUP_AVAILABLE \in BOOLEAN
    /\ _global_search_count \in Nat
    /\ pc \in {"idle", "loop", "presleep", "create", "kickoff", "search",
              "except", "raised"}
    /\ attempt \in 0..max_retries
    /\ toolCalls \in 0..MaxToolCalls
    /\ credMissing \in -1..max_retries
    /\ earlierRateLimited \in BOOLEAN
    /\ readCount \in Nat
    /\ otherPc \in {"idle", "loop", "presleep", "create", "kickoff", "search"}
    /\ otherAttempt \in 0..(max_retries - 1)
    /\ otherRead \in Nat
    /\ otherSteps \in 0..MaxOtherSteps

(***************************************************************************)
(* Derived histories used by the properties.                               *)
(***************************************************************************)
\* the successful provider calls of the current attempt, in call order
OkCalls == SelectSeq(provLog, LAMBDA c : c.ok)

StartsWith(prefix, s) ==
    Len(s) >= Len(prefix) /\ SubSeq(s, 1, Len(prefix)) = prefix

\* the rate-limit vocabulary of the retry controller, case-insensitive
RateLimitVocabulary(text) ==
    \E w \in {"overloaded", "rate limit", "quota"} : Contains(w, Lower(text))

\* a step that is one call of LinkUpSearchTool._run
IsToolStep == toolCalls' = toolCalls + 1

\* a step that is the counter reset of run_research
IsResetStep == resetsInAttempt' = resetsInAttempt + 1

(***************************************************************************)
(* C1: run_research always returns text and never lets an exception reach  *)
(* its caller: no state has an exception that left run_research, every     *)
(* finished call has returned a non-empty text, whatever reports and       *)
(* exceptions the attempts produce.                                        *)
(***************************************************************************)
C1_AlwaysReturnsText ==
    /\ pc # "raised"
    /\ (pc = "idle" /\ invocations > 0) => result # ""

\* a call that saw three failing attempts and still returned text
C1_Witness ==
    /\ pc = "idle"
    /\ ended = "failed"
    /\ attempt = 2
    /\ StartsWith("Error: ", result)

(***************************************************************************)
(* C2 as stated: in one run_research invocation, all retries included, the *)
(* search provider is invoked at most 5 times, succeeding or failing.      *)
(***************************************************************************)
C2_SessionCapOriginal == sessionProviderCalls <= 5

(***************************************************************************)
(* C2 amended: within one pipeline attempt at most 5 provider calls return *)
(* successfully; failing calls and calls of other attempts do not count    *)
(* against that allowance.                                                 *)
(***************************************************************************)
C2_AttemptCap == Len(OkCalls) <= 5

\* a full allowance used in an attempt of an invocation that has already
\* called the provider more than 5 times
C2_Witness ==
    /\ Len(OkCalls) = 5
    /\ sessionProviderCalls > 5
    /\ attempt > 0

(***************************************************************************)
(* C3: once 5 searches of the attempt have succeeded, every further call   *)
(* of the tool returns the limit text, calls no provider and leaves the    *)
(* counter alone; the counter stays within 0..5.                           *)
(***************************************************************************)
C3_DeniedAfterFive ==
    /\ [](_global_search_count \in 0..5)
    /\ [][ (IsToolStep /\ _global_search_count = 5)
           => /\ toolResult' = "Maximum search limit (5) reached. Please analyze existing results."
              /\ provLog' = provLog
              /\ sessionProviderCalls' = sessionProviderCalls
              /\ _global_search_count' = 5 ]_vars

\* a call was denied after five successes
C3_Witness ==
    /\ StartsWith("Maximum search limit", toolResult)
    /\ _global_search_count = 5
    /\ Len(OkCalls) = 5
    /\ toolCalls > Len(provLog)

(***************************************************************************)
(* C4: the k-th successful search of an attempt went to the provider with  *)
(* depth deep iff k mod 3 = 0, else standard, however failing and denied   *)
(* calls are interleaved.                                                  *)
(***************************************************************************)
C4_DepthRule ==
    \A k \in 1..Len(OkCalls) :
        OkCalls[k].depth = (IF k % 3 = 0 THEN "deep" ELSE "standard")

\* five successes with a failed provider call somewhere before the third
C4_Witness ==
    /\ Len(OkCalls) = 5
    /\ \E i \in 1..Len(provLog) :
          /\ ~provLog[i].ok
          /\ Len(SelectSeq(SubSeq(provLog, 1, i), LAMBDA c : c.ok)) < 3

(***************************************************************************)
(* C5: when the orchestrator starts in any attempt the counter is 0 and    *)
(* has been reset exactly once in that attempt.                            *)
(***************************************************************************)
C5_FreshBudget ==
    (pc = "create" \/ (pc = "kickoff" /\ toolCalls = 0))
        => (_global_search_count = 0 /\ resetsInAttempt = 1)

\* the third attempt starts after an attempt that used the whole budget
C5_Witness ==
    /\ pc = "create"
    /\ attempt = 2
    /\ countAtReset = 5
    /\ _global_search_count = 0

(***************************************************************************)
(* C6: a call of the tool changes the counter only when the provider call  *)
(* returns successfully, and then by exactly 1; every call that returns an *)
(* error text or the limit text leaves it unchanged.                       *)
(***************************************************************************)
C6_FailuresAreFree ==
    [][ IsToolStep =>
          LET called == Len(provLog') = Len(provLog) + 1
              succeeded == called /\ provLog'[Len(provLog')].ok
          IN  /\ succeeded => _global_search_count' = _global_search_count + 1
              /\ ~succeeded => _global_search_count' = _global_search_count
              /\ StartsWith("Error", toolResult')
                    => _global_search_count' = _global_search_count ]_vars

\* a provider call has just failed and fewer searches are counted than made
C6_Witness ==
    /\ StartsWith("Error occurred while searching", toolResult)
    /\ Len(provLog) > 0
    /\ ~provLog[Len(provLog)].ok
    /\ _global_search_count = Len(OkCalls)
    /\ _global_search_count > 0

(***************************************************************************)
(* C7: the counter never decreases except by the reset, which sets it to 0 *)
(* whatever it was and happens only at the head of an attempt, before any  *)
(* tool call of that attempt.                                              *)
(***************************************************************************)
C7_MonotoneBetweenResets ==
    [][ /\ (_global_search_count' < _global_search_count) => IsResetStep
        /\ IsResetStep => /\ _global_search_count' = 0
                          /\ pc = "loop"
                          /\ toolCalls = 0
                          /\ provLog = <<>> ]_vars

\* the reset of a retry has just lowered a counter that was above 0
C7_Witness ==
    /\ pc = "presleep"
    /\ attempt > 0
    /\ countAtReset > 0
    /\ _global_search_count = 0

(***************************************************************************)
(* C8: at most 3 attempts per invocation; attempt i+1 starts only after    *)
(* attempt i raised and i < 2; a returned report or the third failure ends *)
(* the call; the call always ends: every step of a call in progress        *)
(* lowers a non-negative measure that counts the attempts left first.      *)
(***************************************************************************)
AttemptWeight == 2 * MaxToolCalls + 6

Position ==
    CASE pc = "loop"     -> 2 * MaxToolCalls + 5
      [] pc = "presleep" -> 2 * MaxToolCalls + 4
      [] pc = "create"   -> 2 * MaxToolCalls + 3
      [] pc = "kickoff"  -> 2 + 2 * (MaxToolCalls - toolCalls)
      [] pc = "search"   -> 1 + 2 * (MaxToolCalls - toolCalls)
      [] pc = "except"   -> 1
      [] OTHER           -> 0

Measure == (3 - attempt) * AttemptWeight + Position

C8_BoundedRetries ==
    /\ [](attempt \in 0..2)
    /\ [][ (attempt' = attempt + 1) => (pc = "except" /\ attempt < 2) ]_vars
    /\ [][ (pc = "kickoff" /\ ended' = "returned") => pc' = "idle" ]_vars
    /\ [][ (pc = "except" /\ attempt = 2) => pc' = "idle" ]_vars
    /\ [][ (pc \notin {"idle", "raised"})
             => (Measure' < Measure /\ Measure' >= 0) ]_vars

\* the call ended after its third failed attempt
C8_Witness ==
    /\ pc = "idle"
    /\ attempt = 2
    /\ ended = "failed"
    /\ invocations > 0
    /\ result = RateLimitedMessage

(***************************************************************************)
(* C9: a report of length >= 500 is returned unchanged; a shorter one is   *)
(* returned inside a limited-content message that contains it verbatim; in *)
(* both cases the call returns from that attempt without another attempt.  *)
(***************************************************************************)
C9_ShortReportNotRetried ==
    /\ []((pc = "idle" /\ ended = "returned") =>
            /\ Len(lastRaw) >= 500 => result = lastRaw
            /\ Len(lastRaw) < 500 =>
                 /\ result # lastRaw
                 /\ Contains(lastRaw, result)
                 /\ Contains("content seems limited", result))
    /\ [][ (pc = "kickoff" /\ ended' = "returned")
             => (pc' = "idle" /\ attempt' = attempt) ]_vars

\* a 300-character report came back inside the limited-content message
C9_Witness ==
    /\ pc = "idle"
    /\ ended = "returned"
    /\ Len(lastRaw) = 300
    /\ Len(result) > 300
    /\ Contains(lastRaw, result)

(***************************************************************************)
(* C10: after attempt i fails with attempts remaining (i < 2) the call     *)
(* waits 3*(i+1) units when the error text matches the rate-limit          *)
(* vocabulary and 3 units otherwise; after the failure of attempt 2 it     *)
(* waits nothing and returns.                                              *)
(***************************************************************************)
C10_RetryWaits ==
    [][ pc = "except" =>
          IF attempt < 2
          THEN /\ pc' = "loop"
               /\ postWait' = (IF RateLimitVocabulary(exc.msg)
                               THEN 3 * (attempt + 1) ELSE 3)
          ELSE /\ pc' = "idle"
               /\ postWait' = 0 ]_vars

\* attempt 1 failed with a rate-limit error and the call waited 6 units
C10_Witness ==
    /\ pc = "loop"
    /\ attempt = 2
    /\ postWait = 6

(***************************************************************************)
(* C11, as stated: before the orchestrator run of attempt i > 0 the call   *)
(* has waited, since the failure of attempt i-1, 3*i units when that       *)
(* failure was generic and 3*(i+1) units when it was a rate-limit error;   *)
(* attempt 0 is preceded by no wait.                                       *)
(***************************************************************************)
C11_BackoffTotalsOriginal ==
    pc = "create" =>
       preWait + postWait =
          IF attempt = 0 THEN 0
          ELSE IF RateLimitVocabulary(lastErrMsg)
               THEN 3 * (attempt + 1)
               ELSE 3 * attempt

(***************************************************************************)
(* C11, amended: the wait of the except clause and the wait at the head of *)
(* the next iteration add up.  Before the orchestrator run of attempt      *)
(* i > 0 the call has waited 3 + 3*i units after a generic failure and     *)
(* 3*i + 3*i units after a rate-limit failure; attempt 0 is preceded by no *)
(* wait.                                                                   *)
(***************************************************************************)
C11_BackoffTotals ==
    pc = "create" =>
       /\ preWait = 3 * attempt
       /\ preWait + postWait =
             IF attempt = 0 THEN 0
             ELSE IF RateLimitVocabulary(lastErrMsg)
                  THEN 3 * attempt + 3 * attempt
                  ELSE 3 + 3 * attempt

\* attempt 2 is about to create its crew after a rate-limit failure of
\* attempt 1: 6 units in the except clause and 6 at the head of the loop
C11_Witness ==
    /\ pc = "create"
    /\ attempt = 2
    /\ RateLimitVocabulary(lastErrMsg)
    /\ postWait = 6
    /\ preWait = 6

(***************************************************************************)
(* C12: when attempt 2 fails with an error whose lower-cased text contains *)
(* "overloaded", "rate limit" or "quota", run_research returns the fixed   *)
(* "API Rate Limited" message, which does not contain the exception text;  *)
(* at attempts 0 and 1 such an error takes the rate-limit retry path (wait *)
(* 3*(i+1), then the next attempt).                                        *)
(***************************************************************************)
C12_RateLimitExhaustion ==
    [][ (pc = "except" /\ RateLimitVocabulary(exc.msg)) =>
          IF attempt = 2
          THEN /\ pc' = "idle"
               /\ StartsWith("API Rate Limited", result')
               /\ ~Contains(exc.msg, result')
               /\ \A e \in ExternalErrors :
                     RateLimitVocabulary(e.msg) => ~Contains(e.msg, result')
          ELSE /\ pc' = "loop"
               /\ attempt' = attempt + 1
               /\ postWait' = 3 * (attempt + 1) ]_vars

\* the third attempt failed with "Quota exhausted for key" and the call
\* returned the rate-limit exhaustion message
C12_Witness ==
    /\ pc = "idle"
    /\ ended = "failed"
    /\ attempt = 2
    /\ lastErrMsg = "Quota exhausted for key"
    /\ StartsWith("API Rate Limited", result)

(***************************************************************************)
(* C13: when attempt 2 fails with an error that is not rate-limit          *)
(* classified, the returned message is chosen by the kind of the error:    *)
(* "Import Error" for ImportError and its subclasses, "Configuration       *)
(* Error" for value errors, the generic "Error" message for anything else. *)
(***************************************************************************)
C13_MessageByKind ==
    [][ (pc = "except" /\ attempt = 2 /\ ~RateLimitVocabulary(exc.msg)) =>
          /\ pc' = "idle"
          /\ StartsWith(IF "ImportError" \in exc.bases THEN "Import Error: "
                        ELSE IF "ValueError" \in exc.bases
                             THEN "Configuration Error: "
                             ELSE "Error: ",
                        result') ]_vars

(***************************************************************************)
(* C14, as stated: with the library available and LINKUP_API_KEY missing   *)
(* at every attempt, every attempt fails in create_research_crew with a    *)
(* ValueError (the crew never starts), the call runs all 3 attempts and    *)
(* returns the configuration message, and the total wait before attempt 2  *)
(* equals the total wait before attempt 1.                                 *)
(***************************************************************************)
C14_ScenarioBOriginal ==
    LINKUP_AVAILABLE =>
       /\ pc = "kickoff" => credMissing = -1
       /\ (pc = "except" /\ credMissing = attempt + 1) =>
             ("ValueError" \in exc.bases /\ ~RateLimitVocabulary(exc.msg))
       /\ (pc = "idle" /\ credMissing > 0) =>
             /\ credMissing = 3
             /\ attempt = 2
             /\ StartsWith("Configuration Error: ", result)
       /\ (pc = "create" /\ attempt = 2 /\ credMissing = 2) =>
             preWait + postWait = prevGap

(***************************************************************************)
(* C14, amended: in that scenario every attempt fails in                   *)
(* create_research_crew with a ValueError, the call runs all 3 attempts    *)
(* and returns the configuration message; the wait of the except clause is *)
(* the fixed 3 units, but the wait at the head of the loop grows, so the   *)
(* total wait is 6 units before attempt 1 and 9 units before attempt 2.    *)
(***************************************************************************)
C14_ScenarioB ==
    LINKUP_AVAILABLE =>
       /\ pc = "kickoff" => credMissing = -1
       /\ (pc = "except" /\ credMissing = attempt + 1) =>
             ("ValueError" \in exc.bases /\ ~RateLimitVocabulary(exc.msg))
       /\ (pc = "idle" /\ credMissing > 0) =>
             /\ credMissing = 3
             /\ attempt = 2
             /\ StartsWith("Configuration Error: ", result)
       /\ (pc = "create" /\ attempt > 0 /\ credMissing = attempt) =>
             /\ postWait = 3
             /\ preWait + postWait = 3 + 3 * attempt
             /\ attempt = 2 => prevGap = 6

\* attempts 0 and 1 failed for the missing LINKUP_API_KEY; attempt 2 is
\* about to create its crew after 9 units, attempt 1 did after 6
C14_Witness ==
    /\ LINKUP_AVAILABLE
    /\ pc = "create"
    /\ attempt = 2
    /\ credMissing = 2
    /\ prevGap = 6
    /\ preWait + postWait = 9
    /\ lastErrMsg = "LINKUP_API_KEY environment variable not set"

(***************************************************************************)
(* C15: LinkUpSearchTool._run never raises.  No exception of the provider  *)
(* reaches run_research; every call of the tool returns a non-empty text   *)
(* and leaves the attempt running; with the library unavailable, with      *)
(* LINKUP_API_KEY missing and with a provider call that raised the text is *)
(* the matching error text.                                                *)
(***************************************************************************)
C15_ToolNeverRaises ==
    /\ [](exc.msg \notin { p.text : p \in { q \in ProviderOutcomes :
                                                 q.kind # "ok" } })
    /\ [][ IsToolStep =>
             /\ pc' = "kickoff"
             /\ toolResult' # ""
             /\ ~LINKUP_AVAILABLE =>
                   StartsWith("Error: LinkupClient is not available",
                              toolResult')
             /\ (LINKUP_AVAILABLE /\ _global_search_count < 5
                   /\ ~lastKeyPresent') =>
                   toolResult' =
                      "Error: LINKUP_API_KEY environment variable not set"
             /\ (Len(provLog') = Len(provLog) + 1
                   /\ ~provLog'[Len(provLog')].ok) =>
                   /\ StartsWith("Error occurred while searching: ",
                                 toolResult')
                   /\ Len(toolResult') >
                         Len("Error occurred while searching: ") ]_vars

\* in one attempt a provider call raised and a later search succeeded
C15_Witness ==
    /\ pc = "kickoff"
    /\ \E i \in 1..Len(provLog) : \E j \in 1..Len(provLog) :
          i < j /\ ~provLog[i].ok /\ provLog[j].ok
    /\ provLog[Len(provLog)].ok
    /\ StartsWith("Search ", toolResult)

(***************************************************************************)
(* C16: the counter is owned by one attempt.  With a second run_research   *)
(* call interleaved in the same process, no step of that call (its reset,  *)
(* its searches) changes the counter while this call's crew is running,    *)
(* and the counter this call's attempt observes is the number of its own   *)
(* successful searches.                                                    *)
(***************************************************************************)
C16_ExclusiveOwnership ==
    /\ [][ (pc \in {"kickoff", "search"} /\ otherVars' # otherVars)
             => _global_search_count' = _global_search_count ]_vars
    /\ [](pc \in {"kickoff", "search"} =>
            _global_search_count = Len(OkCalls))

\* the header a successful search puts before the response
SearchHeader(k, d) ==
    "Search " \o ToString(k) \o "/5 (" \o d \o " depth):\n"

\* what follows the header in the text of the last, successful, search
SearchBody ==
    LET h == SearchHeader(_global_search_count, provLog[Len(provLog)].depth)
    IN  SubSeq(toolResult, Len(h) + 1, Len(toolResult))

(***************************************************************************)
(* C17: after a successful search the returned text is the header followed *)
(* by the provider's response: untouched when it has 4000 characters or    *)
(* fewer; cut to its first 4000 characters and followed by a non-empty     *)
(* marker that names the search number and the depth when it has more.     *)
(***************************************************************************)
C17_Truncation ==
    StartsWith("Search ", toolResult) =>
       LET k == _global_search_count
           d == provLog[Len(provLog)].depth
           marker == SubSeq(SearchBody, 4001, Len(SearchBody))
       IN  /\ StartsWith(SearchHeader(k, d), toolResult)
           /\ Len(lastResponse) <= 4000 => SearchBody = lastResponse
           /\ Len(lastResponse) > 4000 =>
                 /\ SubSeq(SearchBody, 1, 4000) = SubSeq(lastResponse, 1, 4000)
                 /\ Len(marker) > 0
                 /\ Contains("search " \o ToString(k), marker)
                 /\ Contains(d \o " depth", marker)

\* the third search returned 4001 characters and was cut, with the marker
C17_Witness ==
    /\ StartsWith("Search 3/5 (deep depth)", toolResult)
    /\ Len(lastResponse) = 4001
    /\ Len(SearchBody) > 4001

(***************************************************************************)
(* C18, as stated: on entering attempt i > 0 the wait of 3*i units comes   *)
(* before the counter reset, so whenever the reset of that attempt has     *)
(* happened the wait has finished.                                         *)
(***************************************************************************)
C18_WaitThenResetOriginal ==
    (attempt > 0 /\ resetsInAttempt = 1) => preWait = 3 * attempt

(***************************************************************************)
(* C18, amended: on entering attempt i the counter is reset first, then    *)
(* the call waits 3*i units, then it runs the orchestrator.  When the wait *)
(* starts the reset of this attempt has happened and the counter is 0;     *)
(* when the orchestrator is created the wait of 3*i units has finished and *)
(* the counter is still 0.                                                 *)
(***************************************************************************)
C18_ResetThenWait ==
    /\ pc = "presleep" =>
          /\ resetsInAttempt = 1
          /\ _global_search_count = 0
          /\ preWait = 0
    /\ pc = "create" =>
          /\ resetsInAttempt = 1
          /\ _global_search_count = 0
          /\ preWait = 3 * attempt

\* attempt 2 has reset a counter that stood at 5 and has not yet waited
C18_Witness ==
    /\ pc = "presleep"
    /\ attempt = 2
    /\ resetsInAttempt = 1
    /\ countAtReset = 5
    /\ _global_search_count = 0
    /\ preWait = 0

(***************************************************************************)
(* C19: inside one search call availability is checked first, then the     *)
(* budget, then the credential.  With the budget used up the limit text is *)
(* returned whether or not LINKUP_API_KEY is set; a denied call and a call *)
(* without the credential neither sleep nor call the provider; every       *)
(* provider call comes after the 1.5 unit pacing sleep of the same call.   *)
(***************************************************************************)
C19_CheckOrder ==
    [][ IsToolStep =>
          LET called == Len(provLog') = Len(provLog) + 1
              quiet == ~called /\ pacingSlept' = pacingSlept
          IN  /\ ~LINKUP_AVAILABLE =>
                    /\ StartsWith("Error: LinkupClient is not available",
                                  toolResult')
                    /\ quiet
              /\ (LINKUP_AVAILABLE /\ _global_search_count >= 5) =>
                    /\ toolResult' = "Maximum search limit (5) reached. Please analyze existing results."
                    /\ quiet
              /\ (LINKUP_AVAILABLE /\ _global_search_count < 5
                    /\ ~lastKeyPresent') =>
                    /\ toolResult' =
                         "Error: LINKUP_API_KEY environment variable not set"
                    /\ quiet
              /\ called =>
                    /\ pacingSlept' = pacingSlept + 15
                    /\ provLog'[Len(provLog')].paced = 15 ]_vars

\* the budget was used up by five paced searches and a further call made
\* without LINKUP_API_KEY got the limit text
C19_Witness ==
    /\ toolResult = "Maximum search limit (5) reached. Please analyze existing results."
    /\ ~lastKeyPresent
    /\ _global_search_count = 5
    /\ pacingSlept = 75

(***************************************************************************)
(* C21: the last statement of run_research is never reached.  No call      *)
(* returns the "Maximum retries exceeded" message, the loop never begins   *)
(* an iteration beyond attempt 2, and the failure of attempt 2 makes the   *)
(* call return from inside the loop.                                       *)
(***************************************************************************)
C21_FinalReturnUnreachable ==
    /\ [](~StartsWith("Maximum retries exceeded", result) /\ attempt <= 2)
    /\ [][ pc = "except" =>
             IF attempt < 2
             THEN pc' = "loop" /\ attempt' = attempt + 1 /\ result' = result
             ELSE pc' = "idle" /\ attempt' = 2 /\ result' # "" ]_vars

\* attempt 2 timed out and the call returned the generic message from
\* inside the loop
C21_Witness ==
    /\ pc = "idle"
    /\ ended = "failed"
    /\ attempt = 2
    /\ lastErrMsg = "crew timed out"
    /\ StartsWith("Error: crew timed out", result)

(***************************************************************************)
(* C22: the message returned when attempt 2 fails is decided by the error  *)
(* of attempt 2 alone, whatever the earlier attempts failed with, and the  *)
(* test of the text comes first: an error whose text has the rate-limit    *)
(* vocabulary yields the "API Rate Limited" message whatever its type;     *)
(* any other error yields a message carrying its text, "Configuration      *)
(* Error" for a ValueError and "Import Error" for an ImportError.          *)
(***************************************************************************)
C22_LastErrorDecides ==
    [][ (pc = "except" /\ attempt = 2) =>
          /\ pc' = "idle"
          /\ IF RateLimitVocabulary(exc.msg)
             THEN StartsWith("API Rate Limited", result')
             ELSE /\ ~StartsWith("API Rate Limited", result')
                  /\ Contains(exc.msg, result')
                  /\ exc.cls = "ValueError" =>
                        result' = "Configuration Error: " \o exc.msg
                  /\ exc.cls = "ImportError" =>
                        StartsWith("Import Error: " \o exc.msg, result') ]_vars

\* attempts 0 and 1 failed with rate-limit errors, attempt 2 failed with a
\* configuration error and the call returned the configuration message
C22_Witness ==
    /\ pc = "idle"
    /\ ended = "failed"
    /\ attempt = 2
    /\ earlierRateLimited
    /\ StartsWith("Configuration Error: ", result)
    /\ Contains(lastErrMsg, result)

====
